---- MODULE Spec2Model ----
(***************************************************************************)
(* Model of f5-telemetry-streaming's collection core:                      *)
(*   src/src/nodejs/systemStats.js  SystemStats (conditional resolution,   *)
(*                                  context phases, stats phase, reshape)  *)
(*                                  and the disk usage summary function    *)
(*   src/unnamed/part_001           DataFilter (sink blacklist filter)     *)
(*                                                                         *)
(* JavaScript objects are modelled as insertion-ordered maps: sequences of *)
(* <<key, value>> pairs with distinct keys (Object.keys order).            *)
(***************************************************************************)
EXTENDS Integers, Sequences, FiniteSets, TLC

VARIABLES
    \* ---- conditional resolution (pure functions of systemStats.js) ----
    property,       \* the property handed to _preprocessProperty
    condResult,     \* outcome of _resolveConditional(property.if)
    preResult,      \* outcome of _preprocessProperty(property)
    \* ---- one SystemStats instance and its collect() run ----
    contextData,    \* this.contextData
    collectedData,  \* this.collectedData
    tags,           \* this.tags
    contextCfg,     \* properties.context
    statsCfg,       \* properties.stats
    pc,             \* where collect()'s promise chain stands
    tasks,          \* per _processProperty call: its promise and closure
    groups,         \* per Promise.all (context phase / stats): its state
    output,         \* the value collect() resolved with
    hist,           \* history of the run (observations only)
    \* ---- one DataFilter instance and the objects it is handed ----
    heap,           \* the objects (mappings and sequences), by address
    consumerConfig, \* address of the consumer config given to the constructor
    dataCtx,        \* address of the data context the caller holds
    filter,         \* the DataFilter instance: _consumerConfig and blacklist
    calls,          \* history of the apply() calls (observations only)
    \* ---- one call of the disk usage summary function ----
    request,        \* request.data
    summary,        \* the promise the function returned
    \* ---- one call of SystemStats.prototype._processData ----
    globalCfg,      \* global (properties.global): its filterKeys
    procCall,       \* the arguments: the resolved property and the loaded data
    processed,      \* what _processData returned
    \* ---- two SystemStats instances, each with a collect() run ----
    runs,           \* per instance: its fields and where its run stands
    logs            \* per instance: what has happened to it (observations only)

condVars == <<property, condResult, preResult>>
runVars == <<collectedData, tags, contextCfg, statsCfg, pc, tasks, groups, output, hist>>
cfgVars == <<tags, contextCfg, statsCfg>>
filterVars == <<heap, consumerConfig, dataCtx, filter, calls>>
extraVars == <<request, summary, globalCfg, procCall, processed, runs, logs>>
vars == <<property, condResult, preResult, contextData, collectedData, tags,
          contextCfg, statsCfg, pc, tasks, groups, output, hist,
          heap, consumerConfig, dataCtx, filter, calls,
          request, summary, globalCfg, procCall, processed, runs, logs>>

----------------------------------------------------------------------------
\* Bounds of the model

\* longest conditional block (number of keys of an 'if' object)
MaxBlockLen == 3
\* deepest nesting of if/then/else in a property definition
MaxDepth == 2

----------------------------------------------------------------------------
\* JavaScript objects as insertion-ordered maps

ObjHas(o, k) == \E i \in 1..Len(o) : o[i][1] = k

ObjIdx(o, k) == CHOOSE i \in 1..Len(o) : o[i][1] = k

\* o[k], for a key o has
ObjGet(o, k) == o[ObjIdx(o, k)][2]

\* Object.keys(o)
ObjKeys(o) == [i \in 1..Len(o) |-> o[i][1]]

\* o[k] = v : an existing key keeps its position, a new one goes last
ObjSet(o, k, v) ==
    IF ObjHas(o, k) THEN [o EXCEPT ![ObjIdx(o, k)] = <<k, v>>]
    ELSE Append(o, <<k, v>>)

\* delete o[k]
ObjDelete(o, k) == SelectSeq(o, LAMBDA e : e[1] # k)

RECURSIVE ObjAssignFrom(_, _, _)
ObjAssignFrom(target, source, i) ==
    IF i > Len(source) THEN target
    ELSE ObjAssignFrom(ObjSet(target, source[i][1], source[i][2]), source, i + 1)

\* Object.assign(target, source)
ObjAssign(target, source) == ObjAssignFrom(target, source, 1)

Range(s) == {s[i] : i \in 1..Len(s)}

----------------------------------------------------------------------------
\* Collected values: undefined, a scalar (string) or a mapping

Undefined == [t |-> "undefined", s |-> "", m |-> <<>>]
Scalar(x) == [t |-> "scalar", s |-> x, m |-> <<>>]
MapVal(o) == [t |-> "map", s |-> "", m |-> o]

----------------------------------------------------------------------------
\* Conditional predicates

\* device versions known to the model, oldest first; compareVersionStrings
\* orders them by their dotted components
VersionOrder == <<"12.0", "13.0", "14.0">>

VersionRank(v) == CHOOSE i \in 1..Len(VersionOrder) : VersionOrder[i] = v

\* util.compareVersionStrings(a, '>=', b)
CompareVersionGE(a, b) == VersionRank(a) >= VersionRank(b)

CondReturned(b) == [status |-> "returned", value |-> b, error |-> ""]
CondThrown(msg) == [status |-> "thrown", value |-> FALSE, error |-> msg]

\* deviceVersionGreaterOrEqual taking a missing deviceVersion for an old one
deviceVersionOrOldest(ctx, versionToCompare) ==
    IF ~ObjHas(ctx, "deviceVersion")
    THEN CondReturned(FALSE)
    ELSE CondReturned(CompareVersionGE(ObjGet(ctx, "deviceVersion").s, versionToCompare))

deviceVersionGreaterOrEqual(ctx, versionToCompare) ==
    IF ~ObjHas(ctx, "deviceVersion")
    THEN CondThrown("deviceVersionGreaterOrEqual: context has no property 'deviceVersion'")
    ELSE CondReturned(CompareVersionGE(ObjGet(ctx, "deviceVersion").s, versionToCompare))

ProvisionLevel(provisioning, module) ==
    IF provisioning.t = "map" /\ ObjHas(provisioning.m, module)
          /\ ObjGet(provisioning.m, module).t = "map"
          /\ ObjHas(ObjGet(provisioning.m, module).m, "level")
          /\ ObjGet(ObjGet(provisioning.m, module).m, "level").s # ""
    THEN ObjGet(ObjGet(provisioning.m, module).m, "level").s
    ELSE "none"

isModuleProvisioned(ctx, moduleToCompare) ==
    IF ~ObjHas(ctx, "provisioning")
    THEN CondThrown("isModuleProvisioned: context has no property 'provisioning'")
    ELSE CondReturned(ProvisionLevel(ObjGet(ctx, "provisioning"), moduleToCompare) # "none")

\* own properties of the CONDITIONAL_FUNCS object literal
RegisteredFuncs == {"deviceVersionGreaterOrEqual", "isModuleProvisioned"}

\* CONDITIONAL_FUNCS is a plain object literal: CONDITIONAL_FUNCS[key] also
\* finds the functions it inherits from Object.prototype
InheritedFuncs == {"toString", "constructor"}

\* CONDITIONAL_FUNCS[key] !== undefined
LookupDefined(key) == key \in RegisteredFuncs \cup InheritedFuncs

\* func(this.contextData, conditionalBlock[key])
CallFunc(key, ctx, arg) ==
    CASE key = "deviceVersionGreaterOrEqual" -> deviceVersionGreaterOrEqual(ctx, arg)
      [] key = "isModuleProvisioned" -> isModuleProvisioned(ctx, arg)
      \* Object.prototype.toString() gives "[object Undefined]" and Object(ctx)
      \* gives ctx: both truthy, neither throws
      [] OTHER -> CondReturned(TRUE)

RECURSIVE ResolveFrom(_, _, _, _)

\* ret = ret && func(...), r being what the call of func gave
ResolveAnd(block, i, ctx, r) ==
    IF r.status = "thrown" THEN r ELSE ResolveFrom(block, i + 1, r.value, ctx)

\* the forEach of _resolveConditional from the i-th key on: the lookup of the
\* key comes before the && that skips the call once ret is false
ResolveFrom(block, i, ret, ctx) ==
    IF i > Len(block) THEN CondReturned(ret)
    ELSE IF ~LookupDefined(block[i][1])
    THEN CondThrown("Unknown property in conditional block")
    ELSE IF ~ret
    THEN ResolveFrom(block, i + 1, FALSE, ctx)
    ELSE ResolveAnd(block, i, ctx, CallFunc(block[i][1], ctx, block[i][2]))

\* SystemStats.prototype._resolveConditional
ResolveConditional(block, ctx) == ResolveFrom(block, 1, TRUE, ctx)

----------------------------------------------------------------------------
\* Conditional resolution of a property

ConditionalKeys == {"if", "then", "else"}

PropReturned(p) == [status |-> "returned", value |-> p, error |-> ""]
PropThrown(msg) == [status |-> "thrown", value |-> <<>>, error |-> msg]

RECURSIVE CopyFrom(_, _, _)
CopyFrom(p, newObj, i) ==
    IF i > Len(p) THEN newObj
    ELSE IF p[i][1] \in ConditionalKeys THEN CopyFrom(p, newObj, i + 1)
    ELSE CopyFrom(p, ObjSet(newObj, p[i][1], p[i][2]), i + 1)

\* the copy loop without its test on the conditional keys
CopyEveryKey(p, newObj) == ObjAssign(newObj, p)

\* copy all non-conditional data on same level to new object
CopyNonConditional(p, newObj) == CopyFrom(p, newObj, 1)

\* property.then / property.else: <<>> stands for undefined
Branch(p, name) == IF ObjHas(p, name) THEN <<ObjGet(p, name)>> ELSE <<>>

RECURSIVE PreprocessLoop(_, _, _)

\* property = this._resolveConditional(property.if) ? property.then : property.else
\* c being what _resolveConditional gave
PreprocessBranch(p, newObj, ctx, c) ==
    IF c.status = "thrown" THEN PropThrown(c.error)
    ELSE PreprocessLoop(Branch(p, IF c.value THEN "then" ELSE "else"), newObj, ctx)

\* the body of the while loop, newObj holding this level's fields already
PreprocessLevel(p, newObj, ctx) ==
    IF ~ObjHas(p, "if") THEN PropReturned(newObj)
    ELSE PreprocessBranch(p, newObj, ctx, ResolveConditional(ObjGet(p, "if"), ctx))

\* while (property) { ... }: prop is <<>> for an undefined property
PreprocessLoop(prop, newObj, ctx) ==
    IF prop = <<>> THEN PropReturned(newObj)
    ELSE PreprocessLevel(prop[1], CopyNonConditional(prop[1], newObj), ctx)

\* SystemStats.prototype._preprocessProperty
PreprocessProperty(p, ctx) ==
    IF ObjHas(p, "if") THEN PreprocessLoop(<<p>>, <<>>, ctx)
    ELSE PropReturned(p)

----------------------------------------------------------------------------
\* Inputs of the conditional-resolution specification

ProvisioningOf(level) ==
    MapVal(<< <<"afm", MapVal(<< <<"level", Scalar(level)>> >>)>> >>)

VersionContexts ==
    {<<>>} \cup {<< <<"deviceVersion", Scalar(v)>> >> : v \in {"12.0", "14.0"}}

ProvisioningContexts ==
    {<<>>} \cup {<< <<"provisioning", ProvisioningOf(l)>> >> : l \in {"none", "nominal"}}

\* resolved contexts: deviceVersion and provisioning each present or absent
CondContexts == {a \o b : a \in VersionContexts, b \in ProvisioningContexts}

\* the keys an 'if' block may hold, each with its argument
BlockEntries ==
    { <<"deviceVersionGreaterOrEqual", "13.0">>, <<"isModuleProvisioned", "afm">>,
      <<"unknownOp", "x">>, <<"toString", "x">> }

DistinctKeys(o) == \A i, j \in 1..Len(o) : o[i][1] = o[j][1] => i = j

Blocks ==
    {b \in UNION {[1..n -> BlockEntries] : n \in 0..MaxBlockLen} : DistinctKeys(b)}

\* blocks used inside nested property definitions
SimpleBlocks ==
    { << <<"deviceVersionGreaterOrEqual", "13.0">> >>, << <<"isModuleProvisioned", "afm">> >> }

\* the non-conditional fields of nesting level lvl
LeafProps(lvl) ==
    { << <<"key", <<"endpoint", ToString(lvl)>> >> >>,
      << <<"disabled", lvl % 2 = 1>> >> }

ShallowBranches(lvl) == {<<>>} \cup {<<p>> : p \in LeafProps(lvl)}

MakeConditional(fields, block, th, el) ==
    fields \o << <<"if", block>> >>
           \o (IF th = <<>> THEN <<>> ELSE << <<"then", th[1]>> >>)
           \o (IF el = <<>> THEN <<>> ELSE << <<"else", el[1]>> >>)

\* property definitions with an 'if' at level lvl and at most d nested levels
\* of if/then/else; one branch may nest further, the other is absent or a leaf
RECURSIVE CondProps(_, _)
CondProps(d, lvl) ==
    IF d = 0 THEN {}
    ELSE LET deeper == {<<p>> : p \in CondProps(d - 1, lvl + 1)}
             sh == ShallowBranches(lvl + 1)
             branches == (sh \X sh) \cup (deeper \X sh) \cup (sh \X deeper)
         IN {MakeConditional(f, b, br[1], br[2]) :
                f \in LeafProps(lvl), b \in SimpleBlocks, br \in branches}

PreprocessInputs == LeafProps(0) \cup CondProps(MaxDepth, 0)

BlockInputs == {<< <<"if", b>> >> : b \in Blocks}

NoCondResult == [status |-> "none", value |-> FALSE, error |-> ""]
NoPropResult == [status |-> "none", value |-> <<>>, error |-> ""]

----------------------------------------------------------------------------
\* Specification of the conditional-resolution functions

\* no DataFilter has been constructed
NoFilter == [state |-> "none", config |-> 0, blacklist |-> <<>>]

\* the disk usage summary not called, its promise not yet created
DiskIdle ==
    /\ request = <<>>
    /\ summary = [state |-> "none", value |-> <<>>]

\* _processData not called
ProcessIdle ==
    /\ globalCfg = <<>>
    /\ procCall = [property |-> <<>>, data |-> <<>>]
    /\ processed = [state |-> "none", value |-> <<>>]

\* no second SystemStats instance
TwoIdle ==
    /\ runs = <<>>
    /\ logs = <<>>

ExtraIdle == DiskIdle /\ ProcessIdle /\ TwoIdle

FilterIdle ==
    /\ heap = <<>>
    /\ consumerConfig = 0
    /\ dataCtx = 0
    /\ filter = NoFilter
    /\ calls = <<>>

\* an Error object: its message, and the name and key of a property when
\* the error has been annotated with them
NoError == [msg |-> "", name |-> "", key |-> <<>>]

ErrorOf(msg) == [msg |-> msg, name |-> "", key |-> <<>>]

RunIdle ==
    /\ collectedData = <<>>
    /\ tags = <<>>
    /\ contextCfg = [kind |-> "none", phases |-> <<>>]
    /\ statsCfg = <<>>
    /\ pc = "idle"
    /\ tasks = <<>>
    /\ groups = <<>>
    /\ output = [data |-> <<>>, error |-> NoError]
    /\ hist = <<>>

InitCond ==
    /\ ExtraIdle
    /\ property \in PreprocessInputs \cup BlockInputs
    /\ contextData \in CondContexts
    /\ condResult = NoCondResult
    /\ preResult = NoPropResult
    /\ RunIdle
    /\ FilterIdle

\* this._resolveConditional(property.if)
EvaluateBlock ==
    /\ condResult.status = "none"
    /\ ObjHas(property, "if")
    /\ condResult' = ResolveConditional(ObjGet(property, "if"), contextData)
    /\ UNCHANGED <<property, preResult, contextData>>
    /\ UNCHANGED runVars
    /\ UNCHANGED filterVars
    /\ UNCHANGED extraVars

\* this._preprocessProperty(property)
Preprocess ==
    /\ preResult.status = "none"
    /\ preResult' = PreprocessProperty(property, contextData)
    /\ UNCHANGED <<property, condResult, contextData>>
    /\ UNCHANGED runVars
    /\ UNCHANGED filterVars
    /\ UNCHANGED extraVars

NextCond == EvaluateBlock \/ Preprocess

SpecCond == InitCond /\ [][NextCond]_vars

----------------------------------------------------------------------------
\* One collect() run of one SystemStats instance

\* most phases of an array-valued context configuration
MaxPhases == 2

\* constants.STATS_KEY_SEP separates the segments of a key; a key is kept as
\* the sequence of its segments, a segment being literal or a {{variable}}
RenderSegment(seg, ctx) ==
    IF seg = "{{deviceVersion}}"
    THEN (IF ObjHas(ctx, "deviceVersion") THEN ObjGet(ctx, "deviceVersion").s ELSE "")
    ELSE seg

\* SystemStats.prototype._renderProperty
RenderProperty(p, ctx) ==
    IF ObjHas(p, "key")
    THEN ObjSet(p, "key", [i \in 1..Len(ObjGet(p, "key")) |-> RenderSegment(ObjGet(p, "key")[i], ctx)])
    ELSE p

\* SystemStats.prototype._splitKey
SplitKey(key) == [rootKey |-> Head(key), childKey |-> Tail(key)]

IsDisabled(p) == ObjHas(p, "disabled") /\ ObjGet(p, "disabled")

IsFolder(p) ==
    /\ ObjHas(p, "structure")
    /\ ObjHas(ObjGet(p, "structure"), "folder")
    /\ ObjGet(ObjGet(p, "structure"), "folder")

NumPhases == Len(contextCfg.phases)

\* the Promise.all of the stats phase comes after those of the context phases
StatsGroup == NumPhases + 1

\* .catch((err) => { logger.error(...); return Promise.reject(err); }) of
\* _processProperty: key and property.key go to the log, err goes on as it is
Caught(key, p, err) == err

NewTask(g, key, state, p, err) ==
    [g |-> g, key |-> key, state |-> state, prop |-> p, error |-> err]

\* SystemStats.prototype._processProperty up to the first suspension point:
\* the conditional resolution may throw; a disabled property and a folder
\* resolve at once; otherwise _loadData issues the fetch (and rejects at once
\* when the resolved property has no key to split)
ProcessRendered(M, g, key, p) ==
    IF IsDisabled(p)
    THEN [M EXCEPT !.tasks = Append(@, NewTask(g, key, "resolved", p, NoError))]
    ELSE IF IsFolder(p)
    THEN [M EXCEPT !.cd = ObjSet(@, key, MapVal(<<>>)),
                   !.tasks = Append(@, NewTask(g, key, "resolved", p, NoError))]
    ELSE IF ~ObjHas(p, "key")
    THEN [M EXCEPT !.tasks = Append(@, NewTask(g, key, "rejected", p,
                                               Caught(key, p, ErrorOf("TypeError")))),
                   !.hist.failed = @ \cup {<<g, key>>}]
    ELSE [M EXCEPT !.tasks = Append(@, NewTask(g, key, "pending", p, NoError))]

ProcessPreprocessed(M, g, key, pre) ==
    IF pre.status = "thrown"
    THEN [M EXCEPT !.thrown = TRUE, !.err = ErrorOf(pre.error),
                   !.hist.failed = @ \cup {<<g, key>>}]
    ELSE ProcessRendered(M, g, key, RenderProperty(pre.value, M.xd))

ProcessProperty(M, g, key, prop) ==
    ProcessPreprocessed(M, g, key, PreprocessProperty(prop, M.xd))

\* Object.keys(entries).map(key => this._processProperty(key, entries[key]))
\* followed by Promise.all: an exception leaves the map before Promise.all
RECURSIVE MapProcessProperty(_, _, _, _)

MapContinue(M1, g, entries, i) ==
    IF M1.thrown THEN M1 ELSE MapProcessProperty(M1, g, entries, i + 1)

MapProcessProperty(M, g, entries, i) ==
    IF i > Len(entries) THEN [M EXCEPT !.groups[g].state = "pending"]
    ELSE MapContinue(ProcessProperty(M, g, entries[i][1], entries[i][2]), g, entries, i)

\* SystemStats.prototype._processContext, up to the Promise.all
ProcessContext(M, g) ==
    MapProcessProperty(
        [M EXCEPT !.hist.early = @ \/ (g > 1 /\ M.groups[g - 1].state # "resolved")],
        g, contextCfg.phases[g], 1)

\* for (let i = 1; i < contextData.length; i += 1) promise.then(this._processContext(contextData[i]))
\* the argument of then() is evaluated at once
RECURSIVE LaterPhases(_, _)
LaterPhases(M, g) ==
    IF g > NumPhases \/ M.thrown THEN M
    ELSE LaterPhases(ProcessContext(M, g), g + 1)

\* SystemStats.prototype._computeContextData; the promise it returns is that
\* of the first phase (an already resolved one when there is none)
\* where collect()'s chain stands once a then() callback has returned or thrown
ChainAfter(M1, awaiting) ==
    IF M1.thrown
    THEN [M1 EXCEPT !.pc = "rejected", !.out.error = M1.err, !.thrown = FALSE]
    ELSE [M1 EXCEPT !.pc = awaiting]

ComputeContextData(M) ==
    ChainAfter(IF NumPhases = 0 THEN M
               ELSE IF contextCfg.kind = "array"
               THEN LaterPhases(ProcessContext(M, 1), 2)
               ELSE ProcessContext(M, 1),
               "context")

\* SystemStats.prototype._computePropertiesData, up to the Promise.all
ComputePropertiesData(M) ==
    ChainAfter(MapProcessProperty([M EXCEPT !.hist.statsStarted = TRUE],
                                  StatsGroup, statsCfg, 1),
               "stats")

TasksOf(M, g) == {i \in 1..Len(M.tasks) : M.tasks[i].g = g}

\* the task whose rejection rejects the Promise.all of group g
FirstRejected(M, g) ==
    CHOOSE i \in TasksOf(M, g) :
        /\ M.tasks[i].state = "rejected"
        /\ \A j \in TasksOf(M, g) : M.tasks[j].state = "rejected" => i <= j

\* Promise.all(promises).then(() => { Object.assign(this.contextData,
\* this.collectedData); this.collectedData = {}; }) of context phase g
JoinPhase(M, g) ==
    IF M.groups[g].state # "pending" THEN M
    ELSE IF \E i \in TasksOf(M, g) : M.tasks[i].state = "rejected"
    THEN [M EXCEPT !.groups[g] = [state |-> "rejected",
                                  error |-> M.tasks[FirstRejected(M, g)].error]]
    ELSE IF \A i \in TasksOf(M, g) : M.tasks[i].state = "resolved"
    THEN [M EXCEPT !.groups[g].state = "resolved",
                   !.xd = ObjAssign(M.xd, M.cd),
                   !.cd = <<>>]
    ELSE M

RECURSIVE JoinPhases(_, _)
JoinPhases(M, g) ==
    IF g > NumPhases THEN M ELSE JoinPhases(JoinPhase(M, g), g + 1)

\* promise.then(this._processContext(contextData[i])) hands the promise of
\* phase i to then() as if it were a callback and keeps no reference to it:
\* when it rejects, nothing handles the rejection
UnhandledRejections(G) == {g \in 2..NumPhases : G[g].state = "rejected"}

\* stat.structure && !stat.structure.folder, on the declared property
IsStructuralChild(stat) == ObjHas(stat, "structure") /\ ~IsFolder(stat)

\* the reshape working on this.collectedData itself
OrderAsCollected(cd) == cd

\* order data according to properties file: data[key] = this.collectedData[key]
OrderData(cd) ==
    [i \in 1..Len(statsCfg) |->
        <<statsCfg[i][1],
          IF ObjHas(cd, statsCfg[i][1]) THEN ObjGet(cd, statsCfg[i][1]) ELSE Undefined>>]

\* data[parentKey][key] = data[key]; delete data[key], for the keys data had
\* when the loop began. The assignment throws a TypeError when data[parentKey]
\* is undefined or not an object (strict mode). data[parentKey] is the very
\* object this.collectedData[parentKey] refers to, so R.cd sees the write too.
RECURSIVE Restructure(_, _, _)

\* stat.structure.parentKey
ParentKeyOf(stat) ==
    IF ObjHas(ObjGet(stat, "structure"), "parentKey")
    THEN ObjGet(ObjGet(stat, "structure"), "parentKey")
    ELSE "undefined"

\* the move without the delete of the top-level entry
MoveUnderKeepTop(R, key, parentKey, grown) ==
    [R EXCEPT !.data = ObjSet(R.data, parentKey, grown),
              !.cd = ObjSet(R.cd, parentKey, grown)]

MoveUnder(R, key, parentKey, grown) ==
    [R EXCEPT !.data = ObjDelete(ObjSet(R.data, parentKey, grown), key),
              !.cd = ObjSet(R.cd, parentKey, grown)]

RestructureChild(R, keys, i, parentKey) ==
    IF ~ObjHas(R.data, parentKey) THEN [R EXCEPT !.thrown = TRUE]
    ELSE IF ObjGet(R.data, parentKey).t # "map" THEN [R EXCEPT !.thrown = TRUE]
    ELSE Restructure(
            MoveUnder(R, keys[i], parentKey,
                      MapVal(ObjSet(ObjGet(R.data, parentKey).m, keys[i],
                                    ObjGet(R.data, keys[i])))),
            keys, i + 1)

Restructure(R, keys, i) ==
    IF i > Len(keys) \/ R.thrown THEN R
    ELSE IF ~IsStructuralChild(ObjGet(statsCfg, keys[i])) THEN Restructure(R, keys, i + 1)
    ELSE RestructureChild(R, keys, i, ParentKeyOf(ObjGet(statsCfg, keys[i])))

Reshaped(M, R) ==
    IF R.thrown
    THEN [M EXCEPT !.pc = "rejected", !.out.error = ErrorOf("TypeError"), !.cd = R.cd]
    ELSE [M EXCEPT !.pc = "resolved", !.out.data = R.data, !.cd = R.cd]

\* the last then() of SystemStats.prototype.collect
Reshape(M) ==
    Reshaped(M, Restructure([data |-> OrderData(M.cd), cd |-> M.cd, thrown |-> FALSE],
                            ObjKeys(OrderData(M.cd)), 1))

\* Promise.all of the stats phase, then the reshape
SettleStats(M) ==
    IF M.pc # "stats" \/ M.groups[StatsGroup].state # "pending" THEN M
    ELSE IF \E i \in TasksOf(M, StatsGroup) : M.tasks[i].state = "rejected"
    THEN [M EXCEPT !.groups[StatsGroup] =
                        [state |-> "rejected",
                         error |-> M.tasks[FirstRejected(M, StatsGroup)].error],
                   !.pc = "rejected",
                   !.out.error = M.tasks[FirstRejected(M, StatsGroup)].error]
    ELSE IF \A i \in TasksOf(M, StatsGroup) : M.tasks[i].state = "resolved"
    THEN Reshape([M EXCEPT !.groups[StatsGroup].state = "resolved"])
    ELSE M

\* .then(() => this._computePropertiesData(stats)) once the promise returned
\* by _computeContextData resolves; .catch() when it rejects
AfterContext(M) ==
    IF M.pc # "context" THEN M
    ELSE IF NumPhases = 0 \/ M.groups[1].state = "resolved"
    THEN ComputePropertiesData(M)
    ELSE IF M.groups[1].state = "rejected"
    THEN [M EXCEPT !.pc = "rejected", !.out.error = M.groups[1].error]
    ELSE M

\* the promise reactions that run before the next fetch callback
RunReactions(M) == SettleStats(AfterContext(JoinPhases(M, 1)))

Machine ==
    [xd |-> contextData, cd |-> collectedData, tasks |-> tasks, groups |-> groups,
     pc |-> pc, out |-> output, hist |-> hist, thrown |-> FALSE, err |-> NoError]

Install(M) ==
    /\ contextData' = M.xd
    /\ collectedData' = M.cd
    /\ tasks' = M.tasks
    /\ groups' = M.groups
    /\ pc' = M.pc
    /\ output' = M.out
    /\ hist' = M.hist

----------------------------------------------------------------------------
\* Configurations and fetch results of the run

FetchProp(ep) == << <<"key", <<ep>> >> >>

FolderProp == << <<"structure", << <<"folder", TRUE>> >> >> >>

ChildProp(ep, parentKey) ==
    << <<"key", <<ep>> >>, <<"structure", << <<"parentKey", parentKey>> >> >> >>

\* collected on version 13.0 and later, with a key rendered from the context,
\* and disabled before
VersionProp(ep) ==
    << <<"key", <<ep>> >>,
       <<"if", << <<"deviceVersionGreaterOrEqual", "13.0">> >> >>,
       <<"then", << <<"key", <<ep, "{{deviceVersion}}">> >> >> >>,
       <<"else", << <<"disabled", TRUE>> >> >> >>

PhaseVersion == << <<"deviceVersion", FetchProp("version")>> >>

LaterPhaseOptions ==
    { << <<"provisioning", FetchProp("provision")>> >>,
      << <<"provisioning", VersionProp("provision")>> >> }

ContextConfigs ==
    {[kind |-> "none", phases |-> <<>>],
     [kind |-> "object",
      phases |-> << << <<"deviceVersion", FetchProp("version")>>,
                       <<"provisioning", FetchProp("provision")>> >> >>]}
    \cup
    {[kind |-> "array", phases |-> ph] :
        ph \in {q \in UNION {[1..n -> {PhaseVersion} \cup LaterPhaseOptions] : n \in 0..MaxPhases} :
                  \A i \in 1..Len(q) : (i = 1) = (q[i] = PhaseVersion)}}

\* the declared stats keys, in the order of the properties file
StatKeys == <<"s1", "s2", "s3">>

NextKey(i) == StatKeys[(i % Len(StatKeys)) + 1]

\* what the property declared under the i-th key may be
StatOptions(i) ==
    { FetchProp(StatKeys[i]), FolderProp, VersionProp(StatKeys[i]),
      ChildProp(StatKeys[i], NextKey(i)) }

StatsConfigs ==
    {[i \in 1..Len(StatKeys) |-> <<StatKeys[i], f[i]>>] :
        f \in {g \in [1..Len(StatKeys) -> UNION {StatOptions(i) : i \in 1..Len(StatKeys)}] :
                 \A i \in 1..Len(StatKeys) : g[i] \in StatOptions(i)}}

\* what a successful fetch of the property under key leaves after _processData
FetchValues(key) ==
    CASE key = "deviceVersion" -> {Scalar("12.0"), Scalar("14.0")}
      [] key = "provisioning" -> {ProvisioningOf("none"), ProvisioningOf("nominal")}
      [] OTHER -> {Scalar(key), MapVal(<< <<"value", Scalar(key)>> >>)}

\* outcomes of a fetch: the collaborator reports an error, normalization
\* throws, or the processed value is stored
FetchOutcomes(key) ==
    {[kind |-> "loadError", value |-> Undefined],
     [kind |-> "normalizeError", value |-> Undefined]}
    \cup {[kind |-> "ok", value |-> v] : v \in FetchValues(key)}

TagOptions == {<<>>, << <<"tenant", "t1">> >>}

----------------------------------------------------------------------------
\* Specification of a collect() run

CondIdle ==
    /\ property = <<>>
    /\ condResult = NoCondResult
    /\ preResult = NoPropResult

Init ==
    /\ ExtraIdle
    /\ CondIdle
    /\ FilterIdle
    /\ contextCfg \in ContextConfigs
    /\ statsCfg \in StatsConfigs
    /\ contextData = <<>>
    /\ collectedData = <<>>
    /\ tags = <<>>
    /\ pc = "idle"
    /\ tasks = <<>>
    /\ groups = [g \in 1..(Len(contextCfg.phases) + 1) |-> [state |-> "none", error |-> NoError]]
    /\ output = [data |-> <<>>, error |-> NoError]
    /\ hist = [failed |-> {}, early |-> FALSE, statsStarted |-> FALSE, order |-> <<>>]

\* collect(host, options) up to this.loader.auth()
Collect ==
    /\ pc = "idle"
    /\ \E t \in TagOptions : tags' = IF t # <<>> THEN t ELSE tags
    /\ pc' = "auth"
    /\ UNCHANGED <<contextData, collectedData, contextCfg, statsCfg, tasks, groups, output, hist>>
    /\ UNCHANGED condVars
    /\ UNCHANGED filterVars
    /\ UNCHANGED extraVars

\* this.loader.auth() settles
AuthDone ==
    /\ pc = "auth"
    /\ \E ok \in BOOLEAN :
          Install(IF ok THEN RunReactions(ComputeContextData(Machine))
                  ELSE [Machine EXCEPT !.pc = "rejected", !.out.error = ErrorOf("authError")])
    /\ UNCHANGED <<tags, contextCfg, statsCfg>>
    /\ UNCHANGED condVars
    /\ UNCHANGED filterVars
    /\ UNCHANGED extraVars

\* the callback of loadEndpoint for task i, and the then()/catch() of
\* _processProperty behind it
Completed(M, i, o) ==
    IF o.kind = "ok"
    THEN [M EXCEPT !.cd = ObjSet(@, M.tasks[i].key, o.value),
                   !.tasks[i].state = "resolved",
                   !.hist.order = Append(@, <<M.tasks[i].g, M.tasks[i].key>>)]
    ELSE [M EXCEPT !.tasks[i].state = "rejected",
                   !.tasks[i].error = Caught(M.tasks[i].key, M.tasks[i].prop, ErrorOf(o.kind)),
                   !.hist.failed = @ \cup {<<M.tasks[i].g, M.tasks[i].key>>}]

FetchDone ==
    /\ \E i \in 1..Len(tasks) :
          /\ tasks[i].state = "pending"
          /\ \E o \in FetchOutcomes(tasks[i].key) :
                /\ (o.kind = "normalizeError" =>
                        ~(ObjHas(tasks[i].prop, "normalize") /\ ~ObjGet(tasks[i].prop, "normalize")))
                /\ Install(RunReactions(Completed(Machine, i, o)))
    /\ UNCHANGED <<tags, contextCfg, statsCfg>>
    /\ UNCHANGED condVars
    /\ UNCHANGED filterVars
    /\ UNCHANGED extraVars

Next == Collect \/ AuthDone \/ FetchDone

Spec == Init /\ [][Next]_vars

----------------------------------------------------------------------------
\* DataFilter: the objects it works on

\* most elements of a sequence in the data handed to apply()
MaxElems == 3
\* most apply() calls made on one DataFilter instance
MaxApplies == 2

\* what a slot of a mapping or of a sequence holds: a reference to an object,
\* a string, or nothing (the slot of a sequence left by delete)
Ref(a) == [t |-> "ref", a |-> a, s |-> ""]
Str(x) == [t |-> "scalar", a |-> 0, s |-> x]
Hole == [t |-> "hole", a |-> 0, s |-> ""]

\* an object: a mapping with entries <<key, slot>> in insertion order, or a
\* sequence with entries <<"", slot>> by position
MapCell(ents) == [kind |-> "map", ents |-> ents]
ArrCell(ents) == [kind |-> "array", ents |-> ents]

\* the key under which entry i of object a is found: a sequence is indexed
\* from 0
KeyOf(h, a, i) == IF h[a].kind = "array" THEN ToString(i - 1) ELSE h[a].ents[i][1]

\* util.deepCopy(obj): every mapping and sequence reachable from a is built
\* anew, strings are copied by value; gives the new heap and the copy's address
RECURSIVE CopyEntries(_, _, _, _)

CopyChild(r, a, i, acc) ==
    CopyEntries(r.h, a, i + 1, Append(acc, <<r.h[a].ents[i][1], Ref(r.a)>>))

CopyEntries(h, a, i, acc) ==
    IF i > Len(h[a].ents)
    THEN [h |-> Append(h, [kind |-> h[a].kind, ents |-> acc]), a |-> Len(h) + 1]
    ELSE IF h[a].ents[i][2].t # "ref"
    THEN CopyEntries(h, a, i + 1, Append(acc, h[a].ents[i]))
    ELSE CopyChild(CopyEntries(h, h[a].ents[i][2].a, 1, <<>>), a, i, acc)

DeepCopy(h, a) == CopyEntries(h, a, 1, <<>>)

\* dataUtil.getDeepMatches(data, matchObj): the {data, key} pairs, at every
\* depth below object a, whose key is a key of the blacklist; idx is the
\* position of the key in its object when the scan ran
RECURSIVE MatchesFrom(_, _, _, _)
MatchesFrom(h, a, i, keys) ==
    IF i > Len(h[a].ents) THEN <<>>
    ELSE IF KeyOf(h, a, i) \in keys
    THEN <<[data |-> a, key |-> KeyOf(h, a, i), idx |-> i]>> \o MatchesFrom(h, a, i + 1, keys)
    ELSE IF h[a].ents[i][2].t = "ref"
    THEN MatchesFrom(h, h[a].ents[i][2].a, 1, keys) \o MatchesFrom(h, a, i + 1, keys)
    ELSE MatchesFrom(h, a, i + 1, keys)

GetDeepMatches(h, data, blacklist) == MatchesFrom(h, data, 1, Range(ObjKeys(blacklist)))

\* the delete done with splice on a sequence: the elements behind the
\* match move up before the later matches are handled
DeleteBySplice(h, m) ==
    IF h[m.data].kind = "array"
    THEN [h EXCEPT ![m.data].ents = SubSeq(@, 1, m.idx - 1) \o SubSeq(@, m.idx + 1, Len(@))]
    ELSE [h EXCEPT ![m.data].ents = ObjDelete(@, m.key)]

\* delete match.data[match.key]: a mapping loses the entry, a sequence keeps
\* its length and the slot becomes empty
DeleteMatch(h, m) ==
    IF h[m.data].kind = "array"
    THEN [h EXCEPT ![m.data].ents[m.idx] = <<"", Hole>>]
    ELSE [h EXCEPT ![m.data].ents = ObjDelete(@, m.key)]

\* the first forEach handling the first match only
DeleteFirstMatch(h, matches, n) ==
    IF n > Len(matches) THEN h ELSE DeleteMatch(h, matches[n])

RECURSIVE DeleteMatches(_, _, _)
DeleteMatches(h, matches, n) ==
    IF n > Len(matches) THEN h
    ELSE DeleteMatches(DeleteMatch(h, matches[n]), matches, n + 1)

\* for (let i = match.data.length - 1; i >= 0; i -= 1)
\*     if (typeof match.data[i] === 'undefined') match.data.splice(i, 1)
RECURSIVE SpliceHoles(_, _)
SpliceHoles(ents, i) ==
    IF i = 0 THEN ents
    ELSE IF ents[i][2].t = "hole"
    THEN SpliceHoles(SubSeq(ents, 1, i - 1) \o SubSeq(ents, i + 1, Len(ents)), i - 1)
    ELSE SpliceHoles(ents, i - 1)

ReindexMatch(h, m) ==
    IF h[m.data].kind = "array"
    THEN [h EXCEPT ![m.data].ents = SpliceHoles(@, Len(@))]
    ELSE h

RECURSIVE ReindexMatches(_, _, _)
ReindexMatches(h, matches, n) ==
    IF n > Len(matches) THEN h
    ELSE ReindexMatches(ReindexMatch(h, matches[n]), matches, n + 1)

\* the two forEach of _applyBlacklist: every delete comes before any reindexing
ApplyMatches(h, matches) == ReindexMatches(DeleteMatches(h, matches, 1), matches, 1)

\* DataFilter.prototype._applyBlacklist
ApplyBlacklist(h, data, blacklist) == ApplyMatches(h, GetDeepMatches(h, data, blacklist))

\* dataCtx.data
DataOf(h, a) == ObjGet(h[a].ents, "data").a

\* this._applyBlacklist(dataCtxCopy.data); return dataCtxCopy, r being
\* the heap and address of dataCtxCopy
FilterCopy(r, blacklist) ==
    [h |-> ApplyBlacklist(r.h, DataOf(r.h, r.a), blacklist), a |-> r.a]

\* apply() filtering the data context it was given
ApplyInPlace(h, blacklist, arg) == FilterCopy([h |-> h, a |-> arg], blacklist)

\* DataFilter.prototype.apply
DataFilterApply(h, blacklist, arg) == FilterCopy(DeepCopy(h, arg), blacklist)

\* _applyGlobalFilters with && where the code has ||
ApplyGlobalFiltersBoth(h, cfg, blacklist) ==
    IF ObjGet(h[cfg].ents, "type").s # "Splunk"
          /\ ObjHas(h[cfg].ents, "config")
          /\ ObjGet(h[ObjGet(h[cfg].ents, "config").a].ents, "format").s # "legacy"
    THEN [thrown |-> FALSE, blacklist |-> ObjAssign(blacklist, << <<"tmstats", TRUE>> >>)]
    ELSE [thrown |-> FALSE, blacklist |-> blacklist]

\* DataFilter.prototype._applyGlobalFilters on the config object at cfg:
\* reading config.format throws a TypeError when a Splunk config has no config
ApplyGlobalFilters(h, cfg, blacklist) ==
    IF ObjGet(h[cfg].ents, "type").s # "Splunk"
    THEN [thrown |-> FALSE, blacklist |-> ObjAssign(blacklist, << <<"tmstats", TRUE>> >>)]
    ELSE IF ~ObjHas(h[cfg].ents, "config")
    THEN [thrown |-> TRUE, blacklist |-> blacklist]
    ELSE IF ObjGet(h[ObjGet(h[cfg].ents, "config").a].ents, "format").s # "legacy"
    THEN [thrown |-> FALSE, blacklist |-> ObjAssign(blacklist, << <<"tmstats", TRUE>> >>)]
    ELSE [thrown |-> FALSE, blacklist |-> blacklist]

\* function DataFilter(consumerConfig), r being the copy of the config and g
\* what _applyGlobalFilters did
Constructed(r, g) ==
    [state |-> IF g.thrown THEN "threw" ELSE "ready", config |-> r.a, blacklist |-> g.blacklist]

----------------------------------------------------------------------------
\* DataFilter: inputs and specification

\* an element of data.pools, with or without a tmstats entry of its own
PoolEntry(withStats) ==
    MapCell(<< <<"name", Str("pool")>> >>
            \o (IF withStats THEN << <<"tmstats", Str("table")>> >> ELSE <<>>))

\* the data context { data: { system, pools, tmstats?, first? }, type } at
\* address 1; els tells which pools hold tmstats, top whether data does,
\* shared whether data.first is the very object pools[0] is
DataHeap(els, top, shared) ==
    << MapCell(<< <<"data", Ref(2)>>, <<"type", Str("systemInfo")>> >>),
       MapCell(<< <<"system", Ref(3)>> >>
               \o (IF top THEN << <<"tmstats", Ref(5 + Len(els))>> >> ELSE <<>>)
               \o << <<"pools", Ref(4)>> >>
               \o (IF shared THEN << <<"first", Ref(5)>> >> ELSE <<>>)),
       MapCell(<< <<"hostname", Str("bigip")>> >>),
       ArrCell([i \in 1..Len(els) |-> <<"", Ref(4 + i)>>]) >>
    \o [i \in 1..Len(els) |-> PoolEntry(els[i])]
    \o (IF top THEN << MapCell(<< <<"cpu", Str("1")>> >>) >> ELSE <<>>)

DataShapes ==
    {sh \in [els : UNION {[1..n -> BOOLEAN] : n \in 0..MaxElems},
             top : BOOLEAN, shared : BOOLEAN] : sh.shared => Len(sh.els) >= 1}

\* consumer configs { type, config: { format } }; format "absent" stands for
\* a config object without the config property
ConsumerConfigs ==
    [type : {"Splunk", "Generic_HTTP"}, format : {"legacy", "default", "absent"}]

\* the objects of consumer config c, the first at address base + 1
ConfigCells(c, base) ==
    IF c.format = "absent" THEN << MapCell(<< <<"type", Str(c.type)>> >>) >>
    ELSE << MapCell(<< <<"type", Str(c.type)>>, <<"config", Ref(base + 2)>> >>),
            MapCell(<< <<"format", Str(c.format)>> >>) >>

HeapWith(d, c) == d \o ConfigCells(c, Len(d))

InitFilter ==
    /\ ExtraIdle
    /\ CondIdle
    /\ contextData = <<>>
    /\ RunIdle
    /\ \E sh \in DataShapes, c \in ConsumerConfigs :
          /\ heap = HeapWith(DataHeap(sh.els, sh.top, sh.shared), c)
          /\ consumerConfig = Len(DataHeap(sh.els, sh.top, sh.shared)) + 1
    /\ dataCtx = 1
    /\ filter = NoFilter
    /\ calls = <<>>

Construct(r) ==
    /\ heap' = r.h
    /\ filter' = Constructed(r, ApplyGlobalFilters(r.h, r.a, <<>>))

\* new DataFilter(consumerConfig)
NewDataFilter ==
    /\ filter.state = "none"
    /\ Construct(DeepCopy(heap, consumerConfig))
    /\ UNCHANGED <<consumerConfig, dataCtx, calls>>
    /\ UNCHANGED <<contextData, condVars, runVars>>
    /\ UNCHANGED extraVars

Returned(arg, r) ==
    /\ heap' = r.h
    /\ calls' = Append(calls, [arg |-> arg, res |-> r.a, pre |-> heap])

\* filter.apply(dataCtx), on the caller's data context or on what an earlier
\* call returned
Apply ==
    /\ filter.state = "ready"
    /\ Len(calls) < MaxApplies
    /\ \E arg \in {dataCtx} \cup {calls[n].res : n \in 1..Len(calls)} :
          Returned(arg, DataFilterApply(heap, filter.blacklist, arg))
    /\ UNCHANGED <<consumerConfig, dataCtx, filter>>
    /\ UNCHANGED <<contextData, condVars, runVars>>
    /\ UNCHANGED extraVars

NextFilter == NewDataFilter \/ Apply

SpecFilter == InitFilter /\ [][NextFilter]_vars

\* blacklists naming positions of sequences: mask tells which of the indexes
\* 0..MaxElems-1 are keys, tm whether tmstats is one
IndexBlacklist(mask, tm) ==
    SelectSeq([i \in 1..MaxElems |-> <<ToString(i - 1), mask[i]>>], LAMBDA e : e[2])
    \o (IF tm THEN << <<"tmstats", TRUE>> >> ELSE <<>>)

IndexBlacklists ==
    {IndexBlacklist(mask, tm) : mask \in [1..MaxElems -> BOOLEAN], tm \in BOOLEAN}

\* a DataFilter whose blacklist holds keys that are positions of sequences,
\* and the data context its apply() is given
InitReindex ==
    /\ ExtraIdle
    /\ CondIdle
    /\ contextData = <<>>
    /\ RunIdle
    /\ \E sh \in DataShapes : heap = DataHeap(sh.els, sh.top, sh.shared)
    /\ consumerConfig = 0
    /\ dataCtx = 1
    /\ \E bl \in IndexBlacklists :
          /\ \E i \in 1..Len(bl) : bl[i][1] # "tmstats"
          /\ filter = [state |-> "ready", config |-> 0, blacklist |-> bl]
    /\ calls = <<>>

SpecReindex == InitReindex /\ [][Apply]_vars

----------------------------------------------------------------------------
\* Two SystemStats instances whose collect() runs interleave

\* function SystemStats(): the fields of a new instance, and its run not begun
FreshRun ==
    [xd |-> <<>>, cd |-> <<>>, tags |-> <<>>, tasks |-> <<>>,
     groups |-> [g \in 1..StatsGroup |-> [state |-> "none", error |-> NoError]],
     pc |-> "idle", out |-> [data |-> <<>>, error |-> NoError],
     hist |-> [failed |-> {}, early |-> FALSE, statsStarted |-> FALSE, order |-> <<>>],
     thrown |-> FALSE, err |-> NoError]

\* one turn of the run of an instance with fields R: the call of collect, the
\* settling of auth, or the callback of the fetch of task in.i
Step(R, in) ==
    CASE in.op = "collect" ->
            [R EXCEPT !.tags = IF in.tags # <<>> THEN in.tags ELSE @, !.pc = "auth"]
      [] in.op = "auth" ->
            IF in.ok THEN RunReactions(ComputeContextData(R))
            ELSE [R EXCEPT !.pc = "rejected", !.out.error = ErrorOf("authError")]
      [] in.op = "fetch" -> RunReactions(Completed(R, in.i, in.o))

\* the fields living on an object both instances share
StoreOnShared(rs, r, R) ==
    [q \in 1..Len(rs) |-> IF q = r THEN R ELSE [rs[q] EXCEPT !.cd = R.cd, !.tags = R.tags]]

\* this.tags, this.contextData, this.collectedData are own fields of the
\* instance a method is called on
StoreRun(rs, r, R) == [rs EXCEPT ![r] = R]

\* what may happen next to an instance with fields R
Inputs(R) ==
    {[op |-> "collect", tags |-> t, ok |-> TRUE, i |-> 0, o |-> [kind |-> "none", value |-> Undefined]] :
        t \in {x \in TagOptions : R.pc = "idle"}}
    \cup {[op |-> "auth", tags |-> <<>>, ok |-> b, i |-> 0, o |-> [kind |-> "none", value |-> Undefined]] :
            b \in {x \in BOOLEAN : R.pc = "auth"}}
    \cup UNION {{[op |-> "fetch", tags |-> <<>>, ok |-> TRUE, i |-> i, o |-> o] :
                    o \in FetchOutcomes(R.tasks[i].key)} :
                 i \in {j \in 1..Len(R.tasks) : R.tasks[j].state = "pending"}}

InitTwo ==
    /\ CondIdle
    /\ FilterIdle
    /\ DiskIdle
    /\ ProcessIdle
    /\ contextData = <<>>
    /\ collectedData = <<>>
    /\ tags = <<>>
    /\ pc = "idle"
    /\ tasks = <<>>
    /\ groups = <<>>
    /\ output = [data |-> <<>>, error |-> NoError]
    /\ hist = <<>>
    /\ contextCfg = [kind |-> "array", phases |-> <<PhaseVersion>>]
    /\ statsCfg \in {c \in StatsConfigs :
                       /\ c[1][2] \in {FetchProp("s1"), VersionProp("s1")}
                       /\ c[2][2] = FetchProp("s2")
                       /\ c[3][2] = FolderProp}
    /\ runs = <<FreshRun, FreshRun>>
    /\ logs = << <<>>, <<>> >>

\* a turn of the run of instance r
StepRun(r) ==
    /\ \E in \in Inputs(runs[r]) :
          /\ runs' = StoreRun(runs, r, Step(runs[r], in))
          /\ logs' = [logs EXCEPT ![r] = Append(@, in)]
    /\ UNCHANGED <<contextData, condVars, runVars, filterVars>>
    /\ UNCHANGED <<request, summary, globalCfg, procCall, processed>>

SpecTwo == InitTwo /\ [][\E r \in 1..2 : StepRun(r)]_vars

----------------------------------------------------------------------------
\* The disk usage summary function (second module of systemStats.js)

\* data[k]: undefined when data has no such key
DataField(data, k) == IF ObjHas(data, k) THEN ObjGet(data, k) ELSE Undefined

\* const template = { time: data.timestamp, ..., event: { ... } }
Template(data) ==
    << <<"time", DataField(data, "timestamp")>>,
       <<"host", DataField(data, "hostname")>>,
       <<"index", DataField(data, "rbac_system_index")>>,
       <<"source", Scalar("bigip.tmsh.disk_usage")>>,
       <<"sourcetype", Scalar("f5:bigip:status:iapp:json")>>,
       <<"event", MapVal(<< <<"aggr_period", DataField(data, "aggregationPeriod")>>,
                            <<"device_base_mac", DataField(data, "baseMac")>>,
                            <<"devicegroup", DataField(data, "deviceGroup")>>,
                            <<"facility", DataField(data, "facility")>> >>)>> >>

\* the callback of Object.keys(diskStorage).map: a copy of the template whose
\* event is a copy of diskStorage[key] overlaid with the template's event
NewData(template, entry) ==
    ObjSet(ObjAssign(<<>>, template), "event",
           MapVal(ObjAssign(ObjAssign(<<>>, entry.m), ObjGet(template, "event").m)))

\* the executor of the promise: it returns without calling resolve when
\* data.diskStorage is undefined
Executor(data) ==
    IF DataField(data, "diskStorage") = Undefined
    THEN [state |-> "pending", value |-> <<>>]
    ELSE [state |-> "resolved",
          value |-> [i \in 1..Len(ObjGet(data, "diskStorage").m) |->
                        NewData(Template(data), ObjGet(data, "diskStorage").m[i][2])]]

\* data.diskStorage: some of the mount points, each with its usage (which may
\* have a facility field of its own)
DiskStorages ==
    {[i \in 1..Len(ks) |-> <<ks[i], MapVal(e)>>] :
        ks \in {SelectSeq(<<"/", "/var", "/appdata">>, LAMBDA k : k \in S) :
                  S \in SUBSET {"/", "/var", "/appdata"}},
        e \in { << <<"Capacity", Scalar("55%")>> >>,
                << <<"Capacity", Scalar("55%")>>, <<"facility", Scalar("own")>> >> }}

\* request.data: the fields the template reads, each present or not, with or
\* without diskStorage
Requests ==
    {d \o x :
        d \in {SelectSeq(<< <<"timestamp", Scalar("t0")>>, <<"hostname", Scalar("bigip1")>>,
                            <<"facility", Scalar("f1")>> >>,
                         LAMBDA f : f[1] \in S) :
                  S \in SUBSET {"timestamp", "hostname", "facility"}},
        x \in {<<>>} \cup {<< <<"diskStorage", MapVal(ds)>> >> : ds \in DiskStorages}}

InitDisk ==
    /\ CondIdle
    /\ contextData = <<>>
    /\ RunIdle
    /\ FilterIdle
    /\ request \in Requests
    /\ summary = [state |-> "none", value |-> <<>>]
    /\ ProcessIdle
    /\ TwoIdle

\* module.exports = function (request): new Promise(executor) runs the
\* executor at once; nothing else holds resolve
DiskUsageSummary ==
    /\ summary.state = "none"
    /\ summary' = Executor(request)
    /\ UNCHANGED <<request, globalCfg, procCall, processed, runs, logs>>
    /\ UNCHANGED <<contextData, condVars, runVars, filterVars>>

SpecDisk == InitDisk /\ [][DiskUsageSummary]_vars

----------------------------------------------------------------------------
\* SystemStats.prototype._processData and the allow-list stage of normalize

\* filterByKeys built from the own set of the property alone when it has one
OwnFilterKeysOnly(p, g) ==
    IF ObjHas(p, "filterKeys") THEN <<ObjGet(p, "filterKeys")>>
    ELSE <<ObjGet(g, "filterKeys")>>

\* filterByKeys: property.filterKeys ? [property.filterKeys, global.filterKeys]
\*                                    : [global.filterKeys]
FilterByKeys(p, g) ==
    IF ObjHas(p, "filterKeys")
    THEN <<ObjGet(p, "filterKeys"), ObjGet(g, "filterKeys")>>
    ELSE <<ObjGet(g, "filterKeys")>>

\* one filter-set applied to a record: only the listed keys are retained
RetainListed(data, keys) == SelectSeq(data, LAMBDA e : e[1] \in keys)

\* the allow-list stage of normalize.data: each configured filter-set is
\* applied in turn to what the ones before it left
RECURSIVE FilterStage(_, _, _)
FilterStage(data, sets, i) ==
    IF i > Len(sets) THEN data
    ELSE FilterStage(RetainListed(data, sets[i]), sets, i + 1)

\* property.normalize === false ? data : normalize.data(data, options)
ProcessData(p, data, g) ==
    IF ObjHas(p, "normalize") /\ ~ObjGet(p, "normalize") THEN data
    ELSE FilterStage(data, FilterByKeys(p, g), 1)

\* the keys a payload or a filter-set may hold
PayloadKeys == <<"name", "kind", "Version">>

\* the payloads handed to _processData
Payloads ==
    {SelectSeq([i \in 1..Len(PayloadKeys) |-> <<PayloadKeys[i], Scalar(PayloadKeys[i])>>],
               LAMBDA e : e[1] \in S) : S \in SUBSET Range(PayloadKeys)}

InitProcess ==
    /\ CondIdle
    /\ contextData = <<>>
    /\ RunIdle
    /\ FilterIdle
    /\ DiskIdle
    /\ TwoIdle
    /\ globalCfg \in {<< <<"filterKeys", S>> >> : S \in SUBSET Range(PayloadKeys)}
    /\ \E own \in {<<>>} \cup {<< <<"filterKeys", S>> >> : S \in SUBSET Range(PayloadKeys)},
          flag \in {<<>>, << <<"normalize", FALSE>> >>},
          data \in Payloads :
          procCall = [property |-> own \o flag, data |-> data]
    /\ processed = [state |-> "none", value |-> <<>>]

\* this._processData(property, data, key)
CallProcessData ==
    /\ processed.state = "none"
    /\ processed' = [state |-> "returned",
                     value |-> ProcessData(procCall.property, procCall.data, globalCfg)]
    /\ UNCHANGED <<request, summary, globalCfg, procCall, runs, logs>>
    /\ UNCHANGED <<contextData, condVars, runVars, filterVars>>

SpecProcess == InitProcess /\ [][CallProcessData]_vars

----------------------------------------------------------------------------
\* Claims about conditional resolution (checked under SpecCond)

\* the levels of p that resolution visits against ctx, outermost first
RECURSIVE VisitedLevels(_, _)
VisitedLevels(p, ctx) ==
    IF ~ObjHas(p, "if") THEN <<p>>
    ELSE LET c == ResolveConditional(ObjGet(p, "if"), ctx)
             chosen == IF c.value THEN "then" ELSE "else"
         IN IF c.status = "thrown" \/ ~ObjHas(p, chosen) THEN <<p>>
            ELSE <<p>> \o VisitedLevels(ObjGet(p, chosen), ctx)

\* some 'if' block of a visited level raises when evaluated
PathRaises(p, ctx) ==
    LET last == VisitedLevels(p, ctx)[Len(VisitedLevels(p, ctx))]
    IN ObjHas(last, "if") /\ ResolveConditional(ObjGet(last, "if"), ctx).status = "thrown"

FieldKeys(level) == Range(ObjKeys(level)) \ ConditionalKeys

\* r holds exactly the non-conditional fields of the levels, a deeper level's
\* value overriding a shallower one's
AccumulatedFrom(r, levels) ==
    /\ DistinctKeys(r)
    /\ Range(ObjKeys(r)) = UNION {FieldKeys(levels[i]) : i \in 1..Len(levels)}
    /\ \A k \in Range(ObjKeys(r)) :
          LET deepest == CHOOSE i \in 1..Len(levels) :
                            /\ k \in FieldKeys(levels[i])
                            /\ \A j \in (i + 1)..Len(levels) : k \notin FieldKeys(levels[j])
          IN ObjGet(r, k) = ObjGet(levels[deepest], k)

\* C5: conditional resolution of a property definition always ends; unless an
\* 'if' block on the way raises, it returns a property without the keys if,
\* then, else that holds exactly the fields of the visited levels (deeper
\* overriding shallower), also when the chosen branch is absent
C5_ResolutionFlattens ==
    preResult.status # "none" =>
        /\ preResult.status \in {"returned", "thrown"}
        /\ (preResult.status = "thrown") = PathRaises(property, contextData)
        /\ preResult.status = "returned" =>
              /\ Range(ObjKeys(preResult.value)) \cap ConditionalKeys = {}
              /\ AccumulatedFrom(preResult.value, VisitedLevels(property, contextData))

\* C5 witness: two levels were visited, the second one's chosen branch is
\* absent, and its key overrode the first level's
C5_Witness ==
    LET levels == VisitedLevels(property, contextData)
    IN /\ preResult.status = "returned"
       /\ Len(levels) = 2
       /\ ObjHas(levels[2], "if")
       /\ ObjHas(levels[1], "key") /\ ObjHas(levels[2], "key")
       /\ ObjGet(preResult.value, "key") = ObjGet(levels[2], "key")
       /\ ObjGet(preResult.value, "key") # ObjGet(levels[1], "key")

EvaluatedBlock == ObjGet(property, "if")

\* C6: an evaluated block holding a key that is not a registered predicate
\* raises an error (and so selects no branch)
C6_UnregisteredKeyRaises ==
    (condResult.status # "none"
        /\ \E i \in 1..Len(EvaluatedBlock) : EvaluatedBlock[i][1] \notin RegisteredFuncs)
    => condResult.status = "thrown"

\* entry i of the block is a predicate whose context field is absent
NeedsAbsentField(block, i, ctx) ==
    \/ block[i][1] = "deviceVersionGreaterOrEqual" /\ ~ObjHas(ctx, "deviceVersion")
    \/ block[i][1] = "isModuleProvisioned" /\ ~ObjHas(ctx, "provisioning")

\* entry j of the block is a registered predicate that evaluates to false
EvaluatesFalse(block, j, ctx) ==
    /\ block[j][1] \in RegisteredFuncs
    /\ ~NeedsAbsentField(block, j, ctx)
    /\ \/ /\ block[j][1] = "deviceVersionGreaterOrEqual"
          /\ VersionRank(ObjGet(ctx, "deviceVersion").s) < VersionRank(block[j][2])
       \/ /\ block[j][1] = "isModuleProvisioned"
          /\ ObjGet(ObjGet(ObjGet(ctx, "provisioning").m, block[j][2]).m, "level").s = "none"

\* C7 as stated: a block holding a predicate whose context field is absent
\* raises, whatever the other predicates of the block
C7_AbsentFieldAlwaysRaises ==
    (condResult.status # "none"
        /\ \E i \in 1..Len(EvaluatedBlock) : NeedsAbsentField(EvaluatedBlock, i, contextData))
    => condResult.status = "thrown"

\* C7 amended: a block holding a predicate whose context field is absent
\* raises unless an earlier predicate of the block evaluated to false
C7_AbsentFieldRaisesUnlessShortCircuit ==
    (condResult.status # "none"
        /\ \E i \in 1..Len(EvaluatedBlock) :
              /\ NeedsAbsentField(EvaluatedBlock, i, contextData)
              /\ \A j \in 1..(i - 1) : ~EvaluatesFalse(EvaluatedBlock, j, contextData))
    => condResult.status = "thrown"

\* C7 witness: the predicate with the absent field comes after a predicate
\* that evaluated to true, and the evaluation raised that predicate's error
C7_Witness ==
    /\ condResult.status = "thrown"
    /\ Len(EvaluatedBlock) >= 2
    /\ EvaluatedBlock[1][1] = "isModuleProvisioned"
    /\ ~NeedsAbsentField(EvaluatedBlock, 1, contextData)
    /\ ~EvaluatesFalse(EvaluatedBlock, 1, contextData)
    /\ EvaluatedBlock[2][1] = "deviceVersionGreaterOrEqual"
    /\ NeedsAbsentField(EvaluatedBlock, 2, contextData)
    /\ condResult.error = "deviceVersionGreaterOrEqual: context has no property 'deviceVersion'"

----------------------------------------------------------------------------
\* Claims about a collect() run (checked under Spec)

PhaseGroups == 1..NumPhases

\* C1: no entry of a later context phase starts being processed before the
\* phase before it has joined (all entries resolved, results published)
C1_PhasesInSequence == ~hist.early

\* C2: once the conditional clauses of the stats properties have been
\* evaluated, every context phase has joined
C2_ContextJoinedBeforeStats ==
    hist.statsStarted => \A g \in PhaseGroups : groups[g].state = "resolved"

\* C3: collect never resolves with an output tree in a run in which the
\* processing of a context entry or of a stats property failed
C3_FailFast == pc = "resolved" => hist.failed = {}

\* C4: while the stats phase runs (begun, collect not settled) no step writes
\* contextData
C4_ContextReadOnly == [][pc = "stats" => contextData' = contextData]_vars

DeclaredKeys == ObjKeys(statsCfg)

IsChildKey(k) == IsStructuralChild(ObjGet(statsCfg, k))

\* C8: the top-level keys of the resolved output are the declared stats keys
\* that stay at top level, in declared order
C8_DeclaredOrder ==
    pc = "resolved" =>
        ObjKeys(output.data) = SelectSeq(DeclaredKeys, LAMBDA k : ~IsChildKey(k))

\* C8 witness: collect resolved with two fetched top-level properties whose
\* fetches completed in the reverse of their declared order
C8_Witness ==
    /\ pc = "resolved"
    /\ \E i, j \in 1..Len(output.data) :
          /\ i < j
          /\ \E a, b \in 1..Len(hist.order) :
                /\ a < b
                /\ hist.order[a] = <<StatsGroup, output.data[j][1]>>
                /\ hist.order[b] = <<StatsGroup, output.data[i][1]>>

CollectedOf(cd, k) == IF ObjHas(cd, k) THEN ObjGet(cd, k) ELSE Undefined

\* child k sits at out[parentKey][k] with value v and not at top level
NestedUnderParent(out, k, v) ==
    LET parentKey == ParentKeyOf(ObjGet(statsCfg, k))
    IN /\ ~ObjHas(out, k)
       /\ ObjHas(out, parentKey)
       /\ ObjGet(out, parentKey).t = "map"
       /\ ObjHas(ObjGet(out, parentKey).m, k)
       /\ ObjGet(ObjGet(out, parentKey).m, k) = v

\* C9 as stated: whenever collect resolves, every structural child is absent
\* from the top level and present at output[parentKey][key] with its
\* collected value, whatever its parent is
C9_ChildAlwaysUnderParent ==
    [][(pc # "resolved" /\ pc' = "resolved") =>
          \A i \in 1..Len(DeclaredKeys) :
              IsChildKey(DeclaredKeys[i]) =>
                  NestedUnderParent(output'.data, DeclaredKeys[i],
                                    CollectedOf(collectedData', DeclaredKeys[i]))]_vars

ParentStaysAtTop(k) ==
    LET parentKey == ParentKeyOf(ObjGet(statsCfg, k))
    IN ObjHas(statsCfg, parentKey) => ~IsChildKey(parentKey)

\* C9 amended: whenever collect resolves, every structural child whose parent
\* is not itself a structural child is absent from the top level and present
\* at output[parentKey][key] with its collected value
C9_ChildUnderTopLevelParent ==
    [][(pc # "resolved" /\ pc' = "resolved") =>
          \A i \in 1..Len(DeclaredKeys) :
              (IsChildKey(DeclaredKeys[i]) /\ ParentStaysAtTop(DeclaredKeys[i])) =>
                  NestedUnderParent(output'.data, DeclaredKeys[i],
                                    CollectedOf(collectedData', DeclaredKeys[i]))]_vars

\* C9 witness: collect resolved with a fetched child nested under a parent
\* declared after it
C9_Witness ==
    /\ pc = "resolved"
    /\ IsChildKey("s1")
    /\ ParentStaysAtTop("s1")
    /\ ParentKeyOf(ObjGet(statsCfg, "s1")) = "s2"
    /\ NestedUnderParent(output.data, "s1", Scalar("s1"))

----------------------------------------------------------------------------
\* Claims about DataFilter (checked under SpecFilter)

RefsOf(h, a) ==
    {h[a].ents[i][2].a : i \in {j \in 1..Len(h[a].ents) : h[a].ents[j][2].t = "ref"}}

RECURSIVE ReachFrom(_, _)

ReachGrow(h, S, N) == IF N = S THEN S ELSE ReachFrom(h, N)

ReachFrom(h, S) == ReachGrow(h, S, S \cup UNION {RefsOf(h, a) : a \in S})

\* the objects reachable from object a, a included
Reachable(h, a) == ReachFrom(h, {a})

\* C10: after any call apply(dataCtx), dataCtx and every mapping and sequence
\* reachable from it are as they were before the call, and what the call
\* returned shares no object with its argument
C10_ApplyLeavesArgument ==
    \A n \in 1..Len(calls) :
        /\ \A a \in Reachable(calls[n].pre, calls[n].arg) : heap[a] = calls[n].pre[a]
        /\ Reachable(heap, calls[n].res) \cap Reachable(heap, calls[n].arg) = {}

\* C10 witness: apply was called on the caller's data context holding
\* blacklisted keys at two depths, one in an object referenced twice, and
\* returned a copy that holds none
C10_Witness ==
    /\ Len(calls) >= 1
    /\ calls[1].arg = dataCtx
    /\ ObjHas(heap[DataOf(heap, dataCtx)].ents, "first")
    /\ Len(GetDeepMatches(calls[1].pre, DataOf(calls[1].pre, dataCtx), filter.blacklist)) >= 3
    /\ GetDeepMatches(heap, DataOf(heap, calls[1].res), filter.blacklist) = <<>>

\* the value held by a slot, as a tree: [t, s, m] with m the entries of a
\* mapping or sequence
RECURSIVE TreeOf(_, _)
TreeOf(h, slot) ==
    IF slot.t = "ref"
    THEN [t |-> h[slot.a].kind, s |-> "",
          m |-> [i \in 1..Len(h[slot.a].ents) |->
                    <<h[slot.a].ents[i][1], TreeOf(h, h[slot.a].ents[i][2])>>]]
    ELSE [t |-> slot.t, s |-> slot.s, m |-> <<>>]

\* the key of entry i of tree tr (the index, from 0, in a sequence)
TreeKey(tr, i) == IF tr.t = "array" THEN ToString(i - 1) ELSE tr.m[i][1]

\* tree tr without the entries, at any depth, whose key is in keys
RECURSIVE Strip(_, _), StripFrom(_, _, _)
StripFrom(tr, i, keys) ==
    IF i > Len(tr.m) THEN <<>>
    ELSE IF TreeKey(tr, i) \in keys THEN StripFrom(tr, i + 1, keys)
    ELSE << <<tr.m[i][1], Strip(tr.m[i][2], keys)>> >> \o StripFrom(tr, i + 1, keys)

Strip(tr, keys) == [tr EXCEPT !.m = StripFrom(tr, 1, keys)]

\* some mapping of tree tr, at any depth, has key k
RECURSIVE HasKey(_, _)
HasKey(tr, k) ==
    \E i \in 1..Len(tr.m) : (tr.t = "map" /\ tr.m[i][1] = k) \/ HasKey(tr.m[i][2], k)

\* the consumer config as its owner wrote it
ConfigType == ObjGet(heap[consumerConfig].ents, "type").s

ConfigFormat ==
    IF ObjHas(heap[consumerConfig].ents, "config")
    THEN ObjGet(heap[ObjGet(heap[consumerConfig].ents, "config").a].ents, "format").s
    ELSE "absent"

IsLegacySplunk == ConfigType = "Splunk" /\ ConfigFormat = "legacy"

DataTree(h, a) == TreeOf(h, ObjGet(h[a].ents, "data"))

\* C11: a filter built for anything but Splunk with the legacy format
\* blacklists tmstats, and what apply returns holds no key tmstats at any
\* depth and every other key and value of the input; a filter built for Splunk
\* legacy has an empty blacklist and apply returns data equal to the input
C11_TmstatsRemovedUnlessLegacy ==
    filter.state = "ready" =>
        /\ Range(ObjKeys(filter.blacklist)) = IF IsLegacySplunk THEN {} ELSE {"tmstats"}
        /\ \A n \in 1..Len(calls) :
              /\ ObjGet(heap[calls[n].res].ents, "type") = ObjGet(calls[n].pre[calls[n].arg].ents, "type")
              /\ IsLegacySplunk =>
                    DataTree(heap, calls[n].res) = DataTree(calls[n].pre, calls[n].arg)
              /\ ~IsLegacySplunk =>
                    /\ ~HasKey(DataTree(heap, calls[n].res), "tmstats")
                    /\ DataTree(heap, calls[n].res)
                          = Strip(DataTree(calls[n].pre, calls[n].arg), {"tmstats"})

\* C11 witness: a filter built for Splunk with the default format was applied
\* to data holding tmstats at top level and in an element of a sequence, and
\* returned data without them
C11_Witness ==
    /\ filter.state = "ready"
    /\ ConfigType = "Splunk" /\ ConfigFormat = "default"
    /\ Len(calls) >= 1
    /\ calls[1].arg = dataCtx
    /\ ObjHas(heap[DataOf(heap, dataCtx)].ents, "tmstats")
    /\ HasKey(TreeOf(heap, ObjGet(heap[DataOf(heap, dataCtx)].ents, "pools")), "tmstats")
    /\ ~HasKey(DataTree(heap, calls[1].res), "tmstats")
    /\ HasKey(DataTree(heap, calls[1].res), "pools")

\* no sequence of tree tr, at any depth, has an empty slot
RECURSIVE NoHoles(_)
NoHoles(tr) == tr.t # "hole" /\ \A i \in 1..Len(tr.m) : NoHoles(tr.m[i][2])

\* the sequence data.pools of the data context at a
PoolsTree(h, a) == TreeOf(h, ObjGet(h[DataOf(h, a)].ents, "pools"))

\* the positions of sequence tr whose index is a key of the blacklist
RemovedFrom(tr, keys) == {i \in 1..Len(tr.m) : ToString(i - 1) \in keys}

\* C12: after apply, a sequence that lost blacklisted elements has no empty
\* slot, its length is the original one minus the number of elements
\* removed, and the elements left keep their order, also when several
\* elements of the sequence are removed
C12_SequencesReindexed ==
    \A n \in 1..Len(calls) :
        LET keys == Range(ObjKeys(filter.blacklist))
            before == PoolsTree(calls[n].pre, calls[n].arg)
            after == PoolsTree(heap, calls[n].res)
        IN /\ NoHoles(DataTree(heap, calls[n].res))
           /\ Len(after.m) = Len(before.m) - Cardinality(RemovedFrom(before, keys))
           /\ DataTree(heap, calls[n].res) = Strip(DataTree(calls[n].pre, calls[n].arg), keys)

\* C12 witness: the first and the last of three elements were removed and the
\* sequence returned holds the middle one alone
C12_Witness ==
    /\ Len(calls) >= 1
    /\ calls[1].arg = dataCtx
    /\ Range(ObjKeys(filter.blacklist)) = {"0", "2"}
    /\ Len(PoolsTree(calls[1].pre, dataCtx).m) = 3
    /\ PoolsTree(calls[1].pre, dataCtx).m[2][2] # PoolsTree(calls[1].pre, dataCtx).m[1][2]
    /\ PoolsTree(heap, calls[1].res).m = <<PoolsTree(calls[1].pre, dataCtx).m[2]>>

\* the data context at a, whole
CtxTree(h, a) == TreeOf(h, Ref(a))

\* calls given equal inputs returned equal values, and a call given what an
\* earlier call returned gave back an equal value
CallsIndependent ==
    \A n \in 1..Len(calls) :
        /\ \A m \in 1..Len(calls) :
              CtxTree(calls[m].pre, calls[m].arg) = CtxTree(calls[n].pre, calls[n].arg)
                  => CtxTree(heap, calls[m].res) = CtxTree(heap, calls[n].res)
        /\ (\E m \in 1..(n - 1) : calls[n].arg = calls[m].res)
              => CtxTree(heap, calls[n].res) = CtxTree(calls[n].pre, calls[n].arg)

\* C13: over any sequence of apply calls on one instance the blacklist stays
\* the one computed at construction, equal inputs give equal outputs whatever
\* calls came before, and applying the filter to its own output gives an
\* equal value
C13_CallsIndependent ==
    [][/\ filter.state = "ready" => filter' = filter
       /\ CallsIndependent']_vars

\* C13 witness: the filter removed entries from the caller's data and was
\* then applied to what it had returned, which came back equal
C13_Witness ==
    /\ Len(calls) = 2
    /\ calls[1].arg = dataCtx
    /\ calls[2].arg = calls[1].res
    /\ CtxTree(heap, calls[1].res) # CtxTree(heap, dataCtx)
    /\ CtxTree(heap, calls[2].res) = CtxTree(heap, calls[1].res)

----------------------------------------------------------------------------
\* Further claims about a collect() run (checked under Spec)

\* what a failed fetch rejects with: the collaborator's error or the one
\* thrown while the response is processed
FetchErrors == {"loadError", "normalizeError"}

RejectedByFetch == pc = "rejected" /\ output.error.msg \in FetchErrors

\* C15: once collect has rejected because a fetch failed, no later step
\* settles it again, changes the rejection delivered or adds an output tree,
\* and no later response raises a further (unhandled) error
C15_LateResponseDiscarded ==
    [][RejectedByFetch =>
          /\ pc' = pc
          /\ output' = output
          /\ UnhandledRejections(groups') = UnhandledRejections(groups)]_vars

\* C16: when collect rejects because the load or the normalization of a
\* property failed, the error it rejects with carries the declared name and
\* the key of a property that failed
C16_ErrorNamesProperty ==
    RejectedByFetch =>
        \E i \in 1..Len(tasks) :
            /\ tasks[i].state = "rejected"
            /\ output.error.name = tasks[i].key
            /\ output.error.key = ObjGet(tasks[i].prop, "key")

StatsTasks == {i \in 1..Len(tasks) : tasks[i].g = StatsGroup}

\* C17: a stats property resolved to a disabled form is never fetched, has
\* nothing stored in collectedData, and has no key in the resolved output
C17_DisabledProducesNothing ==
    \A i \in StatsTasks :
        IsDisabled(tasks[i].prop) =>
            /\ tasks[i].state = "resolved"
            /\ \A n \in 1..Len(hist.order) : hist.order[n] # <<StatsGroup, tasks[i].key>>
            /\ ~ObjHas(collectedData, tasks[i].key)
            /\ (pc = "resolved" => ~ObjHas(output.data, tasks[i].key))

\* the results of the fetch of the stats property k carry its name
OwnResult(k, v) ==
    \/ v = Scalar(k)
    \/ v.t = "map" /\ ObjHas(v.m, "value") /\ ObjGet(v.m, "value") = Scalar(k)

\* C19: when collect resolves, the output holds for every enabled, fetched
\* stats property that stays at top level the result of its own fetch
C19_NoResultLost ==
    pc = "resolved" =>
        \A i \in StatsTasks :
            (/\ ~IsDisabled(tasks[i].prop)
             /\ ~IsFolder(tasks[i].prop)
             /\ ~IsChildKey(tasks[i].key)) =>
                /\ ObjHas(output.data, tasks[i].key)
                /\ OwnResult(tasks[i].key, ObjGet(output.data, tasks[i].key))

----------------------------------------------------------------------------
\* Claims about the disk usage summary (checked under SpecDisk)

\* the fields record i keeps from the diskStorage entry it was made from
KeepsEntry(record, entry) ==
    \A j \in 1..Len(entry.m) :
        ~ObjHas(ObjGet(Template(request), "event").m, entry.m[j][1]) =>
            /\ ObjHas(ObjGet(record, "event").m, entry.m[j][1])
            /\ ObjGet(ObjGet(record, "event").m, entry.m[j][1]) = entry.m[j][2]

OneRecordPerKey ==
    /\ Len(summary.value) = Len(ObjGet(request, "diskStorage").m)
    /\ \A i \in 1..Len(summary.value) :
          KeepsEntry(summary.value[i], ObjGet(request, "diskStorage").m[i][2])

\* C20: once the function has been called its promise is resolved (the
\* executor is the only code that can resolve it), and with diskStorage
\* present it is resolved with one record per diskStorage key
C20_SummaryResolves ==
    summary.state # "none" =>
        /\ summary.state = "resolved"
        /\ ObjHas(request, "diskStorage") => OneRecordPerKey

----------------------------------------------------------------------------
\* Claims about _processData (checked under SpecProcess)

OwnFilterKeys == ObjGet(procCall.property, "filterKeys")

GlobalFilterKeys == ObjGet(globalCfg, "filterKeys")

Normalizes == ~ObjHas(procCall.property, "normalize")

----------------------------------------------------------------------------
\* Claims about two interleaved runs (checked under SpecTwo)

\* the run of one instance alone, taken through the turns of log
RECURSIVE Alone(_, _, _)
Alone(R, log, n) ==
    IF n > Len(log) THEN R ELSE Alone(Step(R, log[n]), log, n + 1)

HasPending(R) == \E i \in 1..Len(R.tasks) : R.tasks[i].state = "pending"

====
